---- MODULE Spec2Model ----
(***************************************************************************)
(* Token bridge message execution (x/tokenbridge/keeper ExecuteVAA).       *)
(*                                                                         *)
(* A VAA is executed against the module's stores: replay protection,       *)
(* chain registrations, coin-meta rollback protection, and the bank        *)
(* (denom metadata, balances, supply).  Payloads are byte strings and are  *)
(* decoded at the offsets the handler uses.  Strings are sequences of      *)
(* character codes, byte arrays are sequences of 0..255.                   *)
(***************************************************************************)
EXTENDS Integers, Sequences, FiniteSets, TLC

\* ------------------------------------------------------------------------
\* Bounds of the model
\* ------------------------------------------------------------------------

\* Executions stop being submitted once this many VAAs have been executed.
MaxExecuted == 2

\* The wire amounts and the decimal counts the amount normalizer is applied to.
MaxWire == 120
MaxDecimals == 10

\* ------------------------------------------------------------------------
\* Bytes and strings
\* ------------------------------------------------------------------------

NUL == 0

Rep(b, n) == [i \in 1..n |-> b]

\* Go slice s[lo:hi] (0-based, hi exclusive).
Slice(s, lo, hi) == SubSeq(s, lo + 1, hi)

\* binary.BigEndian.Uint16 / big.Int.SetBytes : big-endian unsigned value.
RECURSIVE BigEndianUpTo(_, _)
BigEndianUpTo(bs, n) ==
    IF n = 0 THEN 0 ELSE BigEndianUpTo(bs, n - 1) * 256 + bs[n]

BigEndian(bs) == BigEndianUpTo(bs, Len(bs))

\* strings.TrimLeft(s, "\x00") : drops the leading NULs.
TrimLeft(s) ==
    LET kept == {i \in 1..Len(s) : s[i] # NUL}
    IN IF kept = {} THEN <<>>
       ELSE SubSeq(s, CHOOSE i \in kept : \A j \in kept : i <= j, Len(s))

\* strings.TrimRight(s, "\x00") : drops the trailing NULs.
TrimRight(s) ==
    LET kept == {i \in 1..Len(s) : s[i] # NUL}
    IN IF kept = {} THEN <<>>
       ELSE SubSeq(s, 1, CHOOSE i \in kept : \A j \in kept : i >= j)

\* strings.Trim(s, "\x00") : both ends.
Trim(s) == TrimRight(TrimLeft(s))

\* Encoders used to build wire payloads (the inverse of the decoding above).
RECURSIVE ToBytes(_, _)
ToBytes(n, width) ==
    IF width = 0 THEN <<>>
    ELSE Append(ToBytes(n \div 256, width - 1), n % 256)

PadLeft(s, width) == Rep(NUL, width - Len(s)) \o s
PadRight(s, width) == s \o Rep(NUL, width - Len(s))

HexDigit(n) == IF n < 10 THEN 48 + n ELSE 87 + n

\* fmt "%x" of a byte array: two lower-case hex digits per byte.
Hex(bs) ==
    [i \in 1..(2 * Len(bs)) |->
        IF i % 2 = 1 THEN HexDigit(bs[(i + 1) \div 2] \div 16)
        ELSE HexDigit(bs[i \div 2] % 16)]

\* ------------------------------------------------------------------------
\* Fixed names of the program
\* ------------------------------------------------------------------------

PayloadIDTransfer == 1
PayloadIDAssetMeta == 2

\* Body lengths required by the two handlers.
TransferBodyLen == 132
AssetMetaBodyLen == 99

\* "uworm"
UwormDenom == <<117, 119, 111, 114, 109>>

\* "b", the prefix that turns a wrapped identifier into its base denom.
BasePrefix == <<98>>

\* types.ModuleName's account (accountKeeper.GetModuleAddress).
ModuleAccount == Rep(77, 20)

\* types.IsWORMToken: the one (chain, address) pair of the system's own token.
WormTokenChain == 1
WormTokenAddress == Rep(22, 32)

IsWORMToken(tokenChain, tokenAddress) ==
    tokenChain = WormTokenChain /\ tokenAddress = WormTokenAddress

\* types.GetWrappedCoinIdentifier: "wh/" + hex(chain) + "/" + hex(address),
\* an injective encoding of the pair.
GetWrappedCoinIdentifier(tokenChain, tokenAddress) ==
    <<119, 104, 47>> \o Hex(ToBytes(tokenChain, 2)) \o <<47>> \o Hex(tokenAddress)

\* Wire precision of amounts.
WireDecimals == 8

RECURSIVE Pow10(_)
Pow10(n) == IF n = 0 THEN 1 ELSE 10 * Pow10(n - 1)

\* The exponent of the display unit of a metadata record, -1 when the
\* metadata has no unit named as its display.
DisplayExponent(meta) ==
    LET us == {i \in 1..Len(meta.DenomUnits) : meta.DenomUnits[i].Denom = meta.Display}
    IN IF us = {} THEN -1
       ELSE meta.DenomUnits[CHOOSE i \in us : \A j \in us : i <= j].Exponent

\* types.Truncate: the denom's native precision back to wire precision.
Truncate(amount, meta) ==
    LET e == DisplayExponent(meta)
    IN IF e < 0 THEN [err |-> "ErrDisplayUnitNotFound", amount |-> 0]
       ELSE IF e >= WireDecimals
            THEN [err |-> "ok", amount |-> amount \div Pow10(e - WireDecimals)]
            ELSE [err |-> "ok", amount |-> amount * Pow10(WireDecimals - e)]

\* Faulty variant: scaling down rounds up instead of down.
UntruncateRoundedUp(amount, meta) ==
    LET e == DisplayExponent(meta)
    IN IF e < 0 THEN [err |-> "ErrDisplayUnitNotFound", amount |-> 0]
       ELSE IF e >= WireDecimals
            THEN [err |-> "ok", amount |-> amount * Pow10(e - WireDecimals)]
            ELSE [err |-> "ok",
                  amount |-> (amount + Pow10(WireDecimals - e) - 1)
                                 \div Pow10(WireDecimals - e)]

\* types.Untruncate: wire precision to the denom's native precision.
Untruncate(amount, meta) ==
    LET e == DisplayExponent(meta)
    IN IF e < 0 THEN [err |-> "ErrDisplayUnitNotFound", amount |-> 0]
       ELSE IF e >= WireDecimals
            THEN [err |-> "ok", amount |-> amount * Pow10(e - WireDecimals)]
            ELSE [err |-> "ok", amount |-> amount \div Pow10(WireDecimals - e)]

\* ------------------------------------------------------------------------
\* Stores seen through the handler's context
\*
\* A context store st is a record
\*   replay   : set of digests                (ReplayProtection)
\*   regs     : chain id -> emitter address   (ChainRegistration)
\*   rollback : identifier -> sequence        (CoinMetaRollbackProtection)
\*   meta     : base denom -> metadata        (bank DenomMetaData)
\*   bal      : <<address, denom>> -> amount  (bank balances, zero entries absent)
\*   supply   : denom -> amount               (bank supply, zero entries absent)
\*   events   : sequence of emitted events    (EventManager)
\*   log      : sequence of the writes made through this context, in order
\* Maps are functions whose domain is the set of keys present.
\* ------------------------------------------------------------------------

Has(map, key) == key \in DOMAIN map

Put(map, key, val) ==
    [k \in DOMAIN map \cup {key} |-> IF k = key THEN val ELSE map[k]]

Get0(map, key) == IF key \in DOMAIN map THEN map[key] ELSE 0

\* Writes an amount, dropping the entry when it is zero.
PutAmount(map, key, val) ==
    IF val = 0 THEN [k \in DOMAIN map \ {key} |-> map[k]] ELSE Put(map, key, val)

Logged(st, entry) == [st EXCEPT !.log = Append(@, entry)]

Fail(err, st) == [err |-> err, st |-> st]
Done(st) == [err |-> "ok", st |-> st]

\* keeper.GetReplayProtection
GetReplayProtection(st, digest) == digest \in st.replay

\* keeper.SetReplayProtection
SetReplayProtection(st, digest) ==
    Logged([st EXCEPT !.replay = @ \cup {digest}], [op |-> "SetReplayProtection"])

\* keeper.GetCoinMetaRollbackProtection / SetCoinMetaRollbackProtection
SetCoinMetaRollbackProtection(st, identifier, sequence) ==
    Logged([st EXCEPT !.rollback = Put(@, identifier, sequence)],
           [op |-> "SetCoinMetaRollbackProtection", index |-> identifier,
            sequence |-> sequence])

\* bankKeeper.SetDenomMetaData: stored under the metadata's base denom.
SetDenomMetaData(st, metadata) ==
    Logged([st EXCEPT !.meta = Put(@, metadata.Base, metadata)],
           [op |-> "SetDenomMetaData", base |-> metadata.Base])

\* bankKeeper.MintCoins into the module account; the bank may refuse.
MintCoins(st, denom, amount, refused) ==
    IF refused THEN Fail("failed to mint coins", st)
    ELSE Done(Logged([st EXCEPT
             !.bal = PutAmount(@, <<ModuleAccount, denom>>,
                               Get0(@, <<ModuleAccount, denom>>) + amount),
             !.supply = PutAmount(@, denom, Get0(@, denom) + amount)],
           [op |-> "MintCoins", denom |-> denom, amount |-> amount]))

\* bankKeeper.SendCoins: fails on insufficient funds, or when the bank refuses.
SendCoins(st, from, to, denom, amount, refused) ==
    IF refused \/ Get0(st.bal, <<from, denom>>) < amount
    THEN Fail("SendCoins failed", st)
    ELSE LET debited == PutAmount(st.bal, <<from, denom>>,
                                  Get0(st.bal, <<from, denom>>) - amount)
             credited == PutAmount(debited, <<to, denom>>,
                                   Get0(debited, <<to, denom>>) + amount)
         IN Done(Logged([st EXCEPT !.bal = credited],
                        [op |-> "SendCoins", from |-> from, to |-> to,
                         denom |-> denom, amount |-> amount]))

\* EventManager.EmitTypedEvent
EmitTypedEvent(st, event, refused) ==
    IF refused THEN Fail("EmitTypedEvent failed", st)
    ELSE Done(Logged([st EXCEPT !.events = Append(@, event)],
                     [op |-> "EmitTypedEvent", type |-> event.type]))

\* A bech32 account string is modelled by its prefix, its payload bytes and
\* whether its checksum is right; sdk.AccAddressFromBech32 / AccAddress.String.
Bech32Prefix == "wormhole"

AccAddressFromBech32(str) ==
    IF str.hrp = Bech32Prefix /\ str.checksum /\ Len(str.data) > 0
    THEN [err |-> "ok", addr |-> str.data]
    ELSE [err |-> "invalid bech32", addr |-> <<>>]

AccAddressString(addr) == [hrp |-> Bech32Prefix, data |-> addr, checksum |-> TRUE]

\* sdk.Coin.Validate: the amount may not be negative.
CoinValidate(denom, amount) == amount >= 0

\* ------------------------------------------------------------------------
\* The handler
\* ------------------------------------------------------------------------

\* vaa.HexDigest: a collision-free digest of the signed body.
HexDigest(v) == <<v.EmitterChain, v.EmitterAddress, v.Sequence, v.Payload>>

\* wormholeKeeper.VerifyVAA: the guardian signatures are valid.
VerifyVAA(v) == v.Signed

\* Replay protection: the digest is already recorded.
AlreadyExecuted(st, v) == GetReplayProtection(st, HexDigest(v))

\* Faulty variant: the emitter address is not compared.
CheckEmitterChainOnly(st, v) ==
    IF ~Has(st.regs, v.EmitterChain) THEN "ErrUnregisteredChain" ELSE "ok"

\* Check if emitter is a registered chain.
CheckEmitter(st, v) ==
    IF ~Has(st.regs, v.EmitterChain) THEN "ErrUnregisteredChain"
    ELSE IF v.EmitterAddress # st.regs[v.EmitterChain] THEN "ErrUnregisteredEmitter"
    ELSE "ok"

DecodeTransfer(payload) ==
    [unnormalizedAmount |-> BigEndian(Slice(payload, 0, 32)),
     tokenAddress       |-> Slice(payload, 32, 64),
     tokenChain         |-> BigEndian(Slice(payload, 64, 66)),
     to                 |-> Slice(payload, 78, 98),
     toChain            |-> BigEndian(Slice(payload, 98, 100)),
     unnormalizedFee    |-> BigEndian(Slice(payload, 100, 132))]

\* Faulty variant: the target chain is not checked.
TargetsAnyChain(toChain, chainId) == TRUE

\* Check that the transfer is to this chain.
TargetsThisChain(toChain, chainId) == toChain = chainId

\* Faulty variant: the chain is compared before the system's token is recognised.
ResolveDenomChainFirst(tokenChain, tokenAddress, chainId) ==
    IF tokenChain # chainId
    THEN [identifier |-> BasePrefix \o GetWrappedCoinIdentifier(tokenChain, tokenAddress),
          wrapped |-> TRUE]
    ELSE IF IsWORMToken(tokenChain, tokenAddress)
    THEN [identifier |-> UwormDenom, wrapped |-> TRUE]
    ELSE [identifier |-> TrimLeft(tokenAddress), wrapped |-> FALSE]

\* Faulty variant: the NULs are stripped on both sides of the denom.
ResolveDenomTrimBoth(tokenChain, tokenAddress, chainId) ==
    IF IsWORMToken(tokenChain, tokenAddress)
    THEN [identifier |-> UwormDenom, wrapped |-> TRUE]
    ELSE IF tokenChain # chainId
    THEN [identifier |-> BasePrefix \o GetWrappedCoinIdentifier(tokenChain, tokenAddress),
          wrapped |-> TRUE]
    ELSE [identifier |-> Trim(tokenAddress), wrapped |-> FALSE]

\* The local denom of a transferred token and whether it is minted here.
ResolveDenom(tokenChain, tokenAddress, chainId) ==
    IF IsWORMToken(tokenChain, tokenAddress)
    THEN [identifier |-> UwormDenom, wrapped |-> TRUE]
    ELSE IF tokenChain # chainId
    THEN [identifier |-> BasePrefix \o GetWrappedCoinIdentifier(tokenChain, tokenAddress),
          wrapped |-> TRUE]
    ELSE [identifier |-> TrimLeft(tokenAddress), wrapped |-> FALSE]

\* Faulty variant: a wrapped asset without metadata is registered on the fly.
MissingMetadataRegistersAsset(st, d) ==
    IF ~d.wrapped THEN Fail("ErrNoDenomMetadata", st)
    ELSE Done(Logged([st EXCEPT !.meta = Put(@, d.identifier,
                        [Description |-> <<>>,
                         DenomUnits  |-> <<[Denom |-> d.identifier, Exponent |-> 0]>>,
                         Base |-> d.identifier, Display |-> d.identifier,
                         Name |-> <<>>, Symbol |-> <<>>])],
                     [op |-> "SetDenomMetaData", base |-> d.identifier]))

\* Faulty variant: the two errors are exchanged.
MissingMetadataExchanged(st, d) ==
    IF d.wrapped THEN Fail("ErrNoDenomMetadata", st)
    ELSE Fail("ErrAssetNotRegistered", st)

\* GetDenomMetaData found nothing for the resolved denom d.
MissingMetadata(st, d) ==
    IF ~d.wrapped THEN Fail("ErrNoDenomMetadata", st)
    ELSE Fail("ErrAssetNotRegistered", st)

\* Faulty variant: a fee equal to the amount is refused too.
FeeNotBelowAmount(amount, fee) == amount <= fee

\* amount.IsLT(fee)
FeeTooHigh(amount, fee) == amount < fee

\* Faulty variant: the fee transfer is made even for a zero fee.
PaysFeeAlways(fee) == TRUE

\* Transfer fee to tx sender if it is not 0.
PaysFee(fee) == fee > 0

\* Faulty variant: the failed fee transfer is reported as success.
FailedToSendFeesIgnored(st) == Done(st)

\* return nil, fmt.Errorf("failed to send fees (%s) to tx sender: %w", fee, err)
FailedToSendFees(st) == Fail("failed to send fees", st)

\* Mint (if wrapped), send the principal, send the fee, emit the event.
ApplyTransfer(st, t, identifier, wrapped, amount, fee, creator, fault) ==
    LET minted == IF wrapped
                  THEN MintCoins(st, identifier, amount, fault = "mint")
                  ELSE Done(st)
    IN IF minted.err # "ok" THEN minted
       ELSE
       LET amtLessFees == amount - fee
           sent == SendCoins(minted.st, ModuleAccount, t.to, identifier,
                             amtLessFees, fault = "send")
       IN IF sent.err # "ok" THEN sent
          ELSE
          LET txSender == AccAddressFromBech32(creator)
          IN IF txSender.err # "ok" THEN Fail(txSender.err, sent.st)
             ELSE
             LET feeSent == IF PaysFee(fee)
                            THEN SendCoins(sent.st, ModuleAccount, txSender.addr,
                                           identifier, fee, fault = "feesend")
                            ELSE Done(sent.st)
             IN IF feeSent.err # "ok" THEN FailedToSendFees(feeSent.st)
                ELSE EmitTypedEvent(feeSent.st,
                        [type         |-> "EventTransferReceived",
                         TokenChain   |-> t.tokenChain,
                         TokenAddress |-> t.tokenAddress,
                         To           |-> AccAddressString(t.to),
                         FeeRecipient |-> AccAddressString(txSender.addr),
                         Amount       |-> amount,
                         Fee          |-> fee,
                         LocalDenom   |-> identifier],
                        fault = "event")

\* case PayloadIDTransfer
HandleTransfer(st, chainId, payload, creator, fault) ==
    IF Len(payload) # TransferBodyLen THEN Fail("ErrVAAPayloadInvalid", st)
    ELSE
    LET t == DecodeTransfer(payload)
    IN IF ~TargetsThisChain(t.toChain, chainId) THEN Fail("ErrInvalidTargetChain", st)
       ELSE
       LET d == ResolveDenom(t.tokenChain, t.tokenAddress, chainId)
       IN IF ~Has(st.meta, d.identifier)
          THEN MissingMetadata(st, d)
          ELSE
          LET meta == st.meta[d.identifier]
              amount == Untruncate(t.unnormalizedAmount, meta)
              fee == Untruncate(t.unnormalizedFee, meta)
          IN IF ~CoinValidate(d.identifier, t.unnormalizedAmount)
             THEN Fail("ErrInvalidAmount", st)
             ELSE IF amount.err # "ok" THEN Fail("failed to untruncate amount", st)
             ELSE IF ~CoinValidate(d.identifier, t.unnormalizedFee)
             THEN Fail("ErrInvalidFee", st)
             ELSE IF fee.err # "ok" THEN Fail("failed to untruncate fee", st)
             ELSE IF FeeTooHigh(amount.amount, fee.amount) THEN Fail("ErrFeeTooHigh", st)
             ELSE ApplyTransfer(st, t, d.identifier, d.wrapped,
                                amount.amount, fee.amount, creator, fault)

DecodeAssetMeta(payload) ==
    [tokenAddress |-> Slice(payload, 0, 32),
     tokenChain   |-> BigEndian(Slice(payload, 32, 34)),
     decimals     |-> payload[35],
     symbol       |-> Trim(Slice(payload, 35, 67)),
     name         |-> Trim(Slice(payload, 67, 99))]

\* Faulty variant: the system's own token is not recognised.
NativeAssetRegistrationLocalChainOnly(a, chainId) == a.tokenChain = chainId

\* Don't allow native assets to be registered as wrapped asset.
NativeAssetRegistration(a, chainId) ==
    a.tokenChain = chainId \/ IsWORMToken(a.tokenChain, a.tokenAddress)

\* Faulty variant: the registration of the token's chain is not looked up.
TokenChainRegistrationSkipped(st, v, a) == TRUE

\* Faulty variant: the token's chain must also be the chain of the emitter.
TokenChainIsEmitterChain(st, v, a) ==
    Has(st.regs, a.tokenChain) /\ a.tokenChain = v.EmitterChain

\* k.GetChainRegistration(ctx, uint32(tokenChain)) of the registrar: the
\* chain of the token is registered, whichever chain emitted the message v.
TokenChainRegistered(st, v, a) == Has(st.regs, a.tokenChain)

\* Faulty variant: an equal sequence is let through.
AssetMetaRollbackStrict(st, identifier, sequence) ==
    Has(st.rollback, identifier) /\ st.rollback[identifier] > sequence

\* Faulty variant: the sequence is not checked.
AssetMetaRollbackSkipped(st, identifier, sequence) == FALSE

\* Only a strictly newer sequence may update the metadata.
AssetMetaRollback(st, identifier, sequence) ==
    Has(st.rollback, identifier) /\ st.rollback[identifier] >= sequence

\* Faulty variant: the stored exponent is not compared.
ChangeDecimalsIgnored(meta, identifier, decimals) == FALSE

\* Faulty variant: only the first unit (the base unit) is compared.
ChangeDecimalsFirstUnitOnly(meta, identifier, decimals) ==
    /\ meta.DenomUnits[1].Denom = identifier
    /\ meta.DenomUnits[1].Exponent # decimals

\* A unit named identifier exists with another exponent.
ChangeDecimals(meta, identifier, decimals) ==
    \E i \in 1..Len(meta.DenomUnits) :
        meta.DenomUnits[i].Denom = identifier /\ meta.DenomUnits[i].Exponent # decimals

\* Faulty variant: the display denom is given as the base, the key of the bank.
WrappedMetadataBaseIsDisplay(a, identifier, baseDenom) ==
    [Description |-> [chain |-> a.tokenChain, address |-> a.tokenAddress],
     DenomUnits  |-> <<[Denom |-> baseDenom, Exponent |-> 0],
                       [Denom |-> identifier, Exponent |-> a.decimals]>>,
     Base        |-> identifier,
     Display     |-> identifier,
     Name        |-> a.name,
     Symbol      |-> a.symbol]

WrappedMetadata(a, identifier, baseDenom) ==
    [Description |-> [chain |-> a.tokenChain, address |-> a.tokenAddress],
     DenomUnits  |-> <<[Denom |-> baseDenom, Exponent |-> 0],
                       [Denom |-> identifier, Exponent |-> a.decimals]>>,
     Base        |-> baseDenom,
     Display     |-> identifier,
     Name        |-> a.name,
     Symbol      |-> a.symbol]

\* case PayloadIDAssetMeta
HandleAssetMeta(st, chainId, v, payload, fault) ==
    IF Len(payload) # AssetMetaBodyLen THEN Fail("ErrVAAPayloadInvalid", st)
    ELSE
    LET a == DecodeAssetMeta(payload)
    IN IF NativeAssetRegistration(a, chainId) THEN Fail("ErrNativeAssetRegistration", st)
       ELSE IF ~TokenChainRegistered(st, v, a) THEN Fail("ErrUnregisteredEmitter", st)
       ELSE
       LET identifier == GetWrappedCoinIdentifier(a.tokenChain, a.tokenAddress)
           baseDenom == BasePrefix \o identifier
       IN IF AssetMetaRollback(st, identifier, v.Sequence)
          THEN Fail("ErrAssetMetaRollback", st)
          ELSE IF Has(st.meta, baseDenom) /\ st.meta[baseDenom].Display # identifier
          THEN Fail("mis-matched display denom", st)
          ELSE IF Has(st.meta, baseDenom)
                  /\ ChangeDecimals(st.meta[baseDenom], identifier, a.decimals)
          THEN Fail("ErrChangeDecimals", st)
          ELSE
          LET written == SetCoinMetaRollbackProtection(
                             SetDenomMetaData(st, WrappedMetadata(a, identifier, baseDenom)),
                             identifier, v.Sequence)
          IN EmitTypedEvent(written,
                 [type         |-> "EventAssetRegistrationUpdate",
                  TokenChain   |-> a.tokenChain,
                  TokenAddress |-> a.tokenAddress,
                  Name         |-> a.name,
                  Symbol       |-> a.symbol,
                  Decimals     |-> a.decimals],
                 fault = "event")

\* switch payloadID
Dispatch(st, chainId, v, creator, fault) ==
    LET payloadID == v.Payload[1]
        payload == Tail(v.Payload)
    IN IF payloadID = PayloadIDTransfer
       THEN HandleTransfer(st, chainId, payload, creator, fault)
       ELSE IF payloadID = PayloadIDAssetMeta
       THEN HandleAssetMeta(st, chainId, v, payload, fault)
       ELSE Fail("ErrUnknownPayloadType", st)

\* Faulty variant: no record is written.
PreventReplaySkipped(r, v) == r

\* Faulty variant: the record is written whatever the handler returned.
PreventReplayEarly(r, v) == [err |-> r.err, st |-> SetReplayProtection(r.st, HexDigest(v))]

\* Prevent replay: the record is written after the handler succeeded.
PreventReplay(r, v) ==
    IF r.err # "ok" THEN r ELSE Done(SetReplayProtection(r.st, HexDigest(v)))

\* Faulty variant: the payload is looked at before the emitter is checked.
ExecuteVAAPayloadFirst(st, config, msg, fault) ==
    LET v == msg.Vaa
    IN IF ~VerifyVAA(v) THEN Fail("VerifyVAA failed", st)
       ELSE IF ~config.found THEN Fail("ErrNoConfig", st)
       ELSE IF AlreadyExecuted(st, v) THEN Fail("ErrVAAAlreadyExecuted", st)
       ELSE IF Len(v.Payload) < 1 THEN Fail("ErrVAAPayloadInvalid", st)
       ELSE IF CheckEmitter(st, v) # "ok" THEN Fail(CheckEmitter(st, v), st)
       ELSE PreventReplay(Dispatch(st, config.ChainId, v, msg.Creator, fault), v)

\* msgServer.ExecuteVAA on context store st; the result carries the error (or
\* "ok") and the context store as the handler left it.
ExecuteVAA(st, config, msg, fault) ==
    LET v == msg.Vaa
    IN IF ~VerifyVAA(v) THEN Fail("VerifyVAA failed", st)
       ELSE IF ~config.found THEN Fail("ErrNoConfig", st)
       ELSE IF AlreadyExecuted(st, v) THEN Fail("ErrVAAAlreadyExecuted", st)
       ELSE IF CheckEmitter(st, v) # "ok" THEN Fail(CheckEmitter(st, v), st)
       ELSE IF Len(v.Payload) < 1 THEN Fail("ErrVAAPayloadInvalid", st)
       ELSE PreventReplay(Dispatch(st, config.ChainId, v, msg.Creator, fault), v)

\* ------------------------------------------------------------------------
\* Chains, accounts, tokens and the VAAs submitted
\* ------------------------------------------------------------------------

\* Wormhole chain ids: this chain, two registered chains, one unregistered.
ChainIds == [Wormchain |-> 3104, Solana |-> 1, Ethereum |-> 2, Unknown |-> 5]

WormchainId == ChainIds.Wormchain
SolanaId == ChainIds.Solana
EthereumId == ChainIds.Ethereum
UnknownChainId == ChainIds.Unknown

EmitterSolana == Rep(11, 32)
EmitterEthereum == Rep(12, 32)
EmitterRogue == Rep(13, 32)

TokenA == PadLeft(Rep(170, 20), 32)
TokenB == Rep(187, 32)

\* "utest", "test", "worm"; "uabc", a denom the bank does not know
UtestDenom == <<117, 116, 101, 115, 116>>
UabcDenom == <<117, 97, 98, 99>>
TestDisplay == <<116, 101, 115, 116>>
WormDisplay == <<119, 111, 114, 109>>

Alice == Rep(65, 20)
Relayer == Rep(82, 20)

RelayerAccount == [hrp |-> Bech32Prefix, data |-> Relayer, checksum |-> TRUE]
MistypedAccount == [hrp |-> Bech32Prefix, data |-> Relayer, checksum |-> FALSE]

Creators == {RelayerAccount, MistypedAccount}

Faults == {"none", "mint", "send", "feesend", "event"}

TransferPayload(amount, tokenAddress, tokenChain, to, toChain, fee) ==
    <<PayloadIDTransfer>> \o ToBytes(amount, 32) \o tokenAddress \o ToBytes(tokenChain, 2)
        \o Rep(NUL, 12) \o to \o ToBytes(toChain, 2) \o ToBytes(fee, 32)

AssetMetaPayload(tokenAddress, tokenChain, decimals, symbol, name) ==
    <<PayloadIDAssetMeta>> \o tokenAddress \o ToBytes(tokenChain, 2) \o <<decimals>>
        \o PadRight(symbol, 32) \o PadRight(name, 32)

VAA(emitterChain, emitterAddress, sequence, payload) ==
    [EmitterChain |-> emitterChain, EmitterAddress |-> emitterAddress,
     Sequence |-> sequence, Payload |-> payload, Signed |-> TRUE]

FromEthereum(sequence, payload) == VAA(EthereumId, EmitterEthereum, sequence, payload)

\* Wire amounts and fees of the transfers (8 decimals on the wire).
WrappedAmounts == {<<300, 100>>, <<100, 100>>, <<100, 300>>, <<300, 0>>}
NativeAmounts == {<<300, 100>>, <<200, 100>>, <<100, 100>>}

\* Symbols and names: "AAA"/"TokA" and "BBB"/"TokB".
Labels == <<<<<<65, 65, 65>>, <<84, 111, 107, 65>>>>,
           <<<<66, 66, 66>>, <<84, 111, 107, 66>>>>>>

TransferVAAs ==
    {FromEthereum(5, TransferPayload(p[1], TokenA, EthereumId, Alice, WormchainId, p[2])) :
        p \in WrappedAmounts}
    \cup {FromEthereum(5, TransferPayload(p[1], PadLeft(UtestDenom, 32), WormchainId,
                                          Alice, WormchainId, p[2])) :
        p \in NativeAmounts}
    \cup {FromEthereum(5, TransferPayload(300, TokenA, EthereumId, Alice, EthereumId, 100)),
          FromEthereum(5, TransferPayload(100, PadLeft(UtestDenom, 32), WormchainId,
                                          Relayer, SolanaId, 300)),
          FromEthereum(6, TransferPayload(0, TokenB, UnknownChainId, Alice, 0, 0)),
          FromEthereum(5, TransferPayload(100, PadLeft(UabcDenom, 32), WormchainId,
                                          Alice, WormchainId, 0)),
          FromEthereum(5, TransferPayload(300, TokenA, SolanaId, Alice, WormchainId, 100)),
          VAA(SolanaId, EmitterSolana, 5,
              TransferPayload(500, WormTokenAddress, WormTokenChain, Alice, WormchainId, 0))}

\* Registrations of TokenA on Ethereum: <<sequence, decimals, label>>.
Registrations == {<<1, 8, 1>>, <<1, 8, 2>>, <<2, 8, 2>>, <<2, 9, 2>>}

AssetMetaVAAs ==
    {FromEthereum(r[1], AssetMetaPayload(TokenA, EthereumId, r[2],
                                         Labels[r[3]][1], Labels[r[3]][2])) :
        r \in Registrations}
    \cup {FromEthereum(1, AssetMetaPayload(PadLeft(UtestDenom, 32), WormchainId, 6,
                                           Labels[1][1], Labels[1][2])),
          FromEthereum(2, AssetMetaPayload(TokenA, WormchainId, 9,
                                           Labels[2][1], Labels[2][2])),
          FromEthereum(1, AssetMetaPayload(WormTokenAddress, WormTokenChain, 6,
                                           Labels[1][1], Labels[1][2])),
          FromEthereum(1, AssetMetaPayload(TokenA, UnknownChainId, 8,
                                           Labels[1][1], Labels[1][2])),
          FromEthereum(1, AssetMetaPayload(TokenB, SolanaId, 8,
                                           Labels[2][1], Labels[2][2])),
          VAA(SolanaId, EmitterSolana, 1,
              AssetMetaPayload(TokenB, SolanaId, 8, Labels[1][1], Labels[1][2])),
          VAA(SolanaId, EmitterSolana, 2,
              AssetMetaPayload(TokenB, SolanaId, 8, Labels[1][1], Labels[1][2]))}

MalformedVAAs ==
    {FromEthereum(5, <<>>),
     FromEthereum(5, <<3>> \o Rep(NUL, 132)),
     FromEthereum(5, <<PayloadIDTransfer>> \o Rep(NUL, 131)),
     FromEthereum(5, <<PayloadIDAssetMeta>> \o Rep(NUL, 100))}

UntrustedVAAs ==
    {VAA(UnknownChainId, EmitterEthereum, 5,
         TransferPayload(200, PadLeft(UtestDenom, 32), WormchainId, Alice, WormchainId, 100)),
     VAA(EthereumId, EmitterRogue, 5,
         TransferPayload(200, PadLeft(UtestDenom, 32), WormchainId, Alice, WormchainId, 100)),
     [FromEthereum(5, TransferPayload(200, PadLeft(UtestDenom, 32), WormchainId,
                                      Alice, WormchainId, 100))
        EXCEPT !.Signed = FALSE],
     VAA(UnknownChainId, EmitterEthereum, 5, <<>>),
     VAA(EthereumId, EmitterRogue, 5, <<3>> \o Rep(NUL, 132))}

VAAs == TransferVAAs \cup AssetMetaVAAs \cup MalformedVAAs \cup UntrustedVAAs

\* The calls submitted: <<VAA, creator, fault>>.  Only a transfer reads the
\* creator and reaches the bank, so the other VAAs come with the good creator
\* and at most a refused event; a mistyped creator comes with no other fault;
\* a VAA that the dispatcher refuses comes with the good creator and no fault.
Calls ==
    {c \in VAAs \X Creators \X Faults :
        IF c[1] \in MalformedVAAs \cup UntrustedVAAs
        THEN c[2] = RelayerAccount /\ c[3] = "none"
        ELSE IF c[1].Payload[1] = PayloadIDTransfer
        THEN c[2] = RelayerAccount \/ c[3] = "none"
        ELSE c[2] = RelayerAccount /\ c[3] \in {"none", "event"}}

\* ------------------------------------------------------------------------
\* State
\* ------------------------------------------------------------------------

VARIABLES
    config,            \* wormholeKeeper.GetConfig
    chainRegistration, \* ChainRegistration store
    replayProtection,  \* ReplayProtection store
    coinMetaRollback,  \* CoinMetaRollbackProtection store
    denomMetaData,     \* bank denom metadata
    balances,          \* bank balances
    supply,            \* bank supply
    events,            \* events of the committed executions
    executed,          \* history: the VAAs whose execution succeeded, in order
    rejected,          \* history: <<digest, error>> of the failed calls (kept by SpecRetry only)
    last,              \* history: the latest ExecuteVAA call and its outcome
    probe              \* the latest application of the normalizer or the resolver alone

vars == <<config, chainRegistration, replayProtection, coinMetaRollback,
          denomMetaData, balances, supply, events, executed, rejected, last, probe>>

\* The committed stores as a context store with an empty write log.
Ctx ==
    [replay |-> replayProtection, regs |-> chainRegistration,
     rollback |-> coinMetaRollback, meta |-> denomMetaData, bal |-> balances,
     supply |-> supply, events |-> events, log |-> <<>>]

NativeMetadata(base, display, exponent) ==
    [Description |-> [chain |-> WormchainId, address |-> base],
     DenomUnits  |-> <<[Denom |-> base, Exponent |-> 0],
                       [Denom |-> display, Exponent |-> exponent]>>,
     Base |-> base, Display |-> display, Name |-> display, Symbol |-> display]

\* Genesis: the config may be missing; Solana and Ethereum are registered;
\* the bank knows uworm and utest; the module account holds 2 utest that
\* were locked by earlier outbound transfers.
Init ==
    /\ config \in {[found |-> TRUE, ChainId |-> WormchainId],
                   [found |-> FALSE, ChainId |-> 0]}
    /\ chainRegistration = (SolanaId :> EmitterSolana) @@ (EthereumId :> EmitterEthereum)
    /\ replayProtection = {}
    /\ coinMetaRollback = <<>>
    /\ denomMetaData = (UwormDenom :> NativeMetadata(UwormDenom, WormDisplay, 6))
                       @@ (UtestDenom :> NativeMetadata(UtestDenom, TestDisplay, 6))
    /\ balances = (<<ModuleAccount, UtestDenom>> :> 2)
    /\ supply = (UtestDenom :> 5)
    /\ events = <<>>
    /\ executed = <<>>
    /\ rejected = {}
    /\ last = [called |-> FALSE]
    /\ probe = [op |-> "idle"]

\* One message of a transaction: the handler runs on a branch of the stores,
\* which is written back only if the handler returned no error.
DeliverExecuteVAA(msg, fault, remember) ==
    /\ Len(executed) < MaxExecuted
    /\ \E r \in {ExecuteVAA(Ctx, config, msg, fault)} :
        \E st \in {IF r.err = "ok" THEN r.st ELSE Ctx} :
          /\ replayProtection' = st.replay
          /\ chainRegistration' = st.regs
          /\ coinMetaRollback' = st.rollback
          /\ denomMetaData' = st.meta
          /\ balances' = st.bal
          /\ supply' = st.supply
          /\ events' = st.events
          /\ executed' = IF r.err = "ok" THEN Append(executed, msg.Vaa) ELSE executed
          /\ rejected' = IF remember /\ r.err # "ok"
                         THEN rejected \cup {<<HexDigest(msg.Vaa), r.err>>} ELSE rejected
          /\ last' = [called |-> TRUE, msg |-> msg, err |-> r.err,
                      log |-> r.st.log, pre |-> Ctx]
    /\ UNCHANGED <<config, probe>>

Next == \E c \in Calls : DeliverExecuteVAA([Creator |-> c[2], Vaa |-> c[1]], c[3], FALSE)

Spec == Init /\ [][Next]_vars

\* The same machine on the calls of a retry scenario, remembering which
\* digests have failed: registrations of TokenA, transfers of TokenA and of
\* utest, with the bank refusing a send or not.
RetryVAAs ==
    {FromEthereum(r[1], AssetMetaPayload(TokenA, EthereumId, r[2],
                                         Labels[r[3]][1], Labels[r[3]][2])) :
        r \in {<<1, 8, 1>>, <<2, 8, 2>>}}
    \cup {FromEthereum(5, TransferPayload(p[1], TokenA, EthereumId, Alice, WormchainId, p[2])) :
        p \in {<<300, 100>>, <<100, 300>>}}
    \cup {FromEthereum(5, TransferPayload(300, PadLeft(UtestDenom, 32), WormchainId,
                                          Alice, WormchainId, 100))}

RetryCalls == RetryVAAs \X {RelayerAccount} \X {"none", "send"}

NextRetry ==
    \E c \in RetryCalls : DeliverExecuteVAA([Creator |-> c[2], Vaa |-> c[1]], c[3], TRUE)

SpecRetry == Init /\ [][NextRetry]_vars

\* The amount normalizer and the denomination resolver applied on their own:
\* a wire amount is normalized against metadata with a given decimal count
\* and converted back, and a (tokenChain, tokenAddress) pair is resolved for
\* a given local chain id.
ProbeMetadata(decimals) == NativeMetadata(UtestDenom, TestDisplay, decimals)

\* Token addresses: the system token, two foreign tokens, and denom names
\* padded on the left, on the right, on both sides, and not at all.
ProbeAddresses ==
    {WormTokenAddress, TokenA, TokenB,
     PadLeft(UtestDenom, 32), PadRight(UtestDenom, 32),
     PadLeft(PadRight(UtestDenom, 16), 32),
     PadLeft(<<117, NUL, 116>>, 32), PadRight(<<117, NUL, 116>>, 32),
     Rep(NUL, 32), Rep(117, 32)}

ProbeChains == {SolanaId, EthereumId, WormchainId, UnknownChainId}

StoresKept ==
    UNCHANGED <<config, chainRegistration, replayProtection, coinMetaRollback,
                denomMetaData, balances, supply, events, executed, rejected, last>>

NormalizeAmount(wire, decimals) ==
    /\ probe.op = "idle"
    /\ \E r \in {Untruncate(wire, ProbeMetadata(decimals))} :
          /\ r.err = "ok"
          /\ probe' = [op |-> "normalized", wire |-> wire, decimals |-> decimals,
                       native |-> r.amount]
    /\ StoresKept

DenormalizeAmount ==
    /\ probe.op = "normalized"
    /\ \E r \in {Truncate(probe.native, ProbeMetadata(probe.decimals))} :
          /\ r.err = "ok"
          /\ probe' = [op |-> "denormalized", wire |-> probe.wire,
                       decimals |-> probe.decimals, native |-> probe.native,
                       back |-> r.amount]
    /\ StoresKept

ResolveDenomination(tokenChain, tokenAddress, chainId) ==
    /\ probe.op = "idle"
    /\ probe' = [op |-> "resolved", tokenChain |-> tokenChain,
                 tokenAddress |-> tokenAddress, chainId |-> chainId,
                 denom |-> ResolveDenom(tokenChain, tokenAddress, chainId)]
    /\ StoresKept

InitFunctions == Init /\ config.found

NextFunctions ==
    \/ \E wire \in 0..MaxWire, decimals \in 0..MaxDecimals : NormalizeAmount(wire, decimals)
    \/ DenormalizeAmount
    \/ \E tokenChain \in ProbeChains, tokenAddress \in ProbeAddresses,
          chainId \in ProbeChains \ {UnknownChainId} :
            ResolveDenomination(tokenChain, tokenAddress, chainId)

SpecFunctions == InitFunctions /\ [][NextFunctions]_vars

\* ------------------------------------------------------------------------
\* Reading the latest call
\* ------------------------------------------------------------------------

LastVaa == last.msg.Vaa
LastDigest == HexDigest(LastVaa)
LastBody == Tail(LastVaa.Payload)

\* The VAAs executed before the latest call.
ExecutedBefore ==
    IF last.called /\ last.err = "ok"
    THEN SubSeq(executed, 1, Len(executed) - 1) ELSE executed

DigestsBefore == {HexDigest(ExecutedBefore[i]) : i \in 1..Len(ExecutedBefore)}

\* The committed stores are exactly those before the latest call.
StoresUnchanged == Ctx = last.pre

\* The latest call carried a verified message while the config exists: the
\* input of the dispatcher.
Dispatched == last.called /\ LastVaa.Signed /\ config.found

\* ... from the registered emitter of its chain, and not executed before.
Admitted ==
    /\ Dispatched
    /\ LastDigest \notin DigestsBefore
    /\ LastVaa.EmitterChain \in DOMAIN last.pre.regs
    /\ last.pre.regs[LastVaa.EmitterChain] = LastVaa.EmitterAddress

TransferCall ==
    /\ Admitted
    /\ Len(LastVaa.Payload) = TransferBodyLen + 1
    /\ LastVaa.Payload[1] = PayloadIDTransfer

AssetMetaCall ==
    /\ Admitted
    /\ Len(LastVaa.Payload) = AssetMetaBodyLen + 1
    /\ LastVaa.Payload[1] = PayloadIDAssetMeta

LogOps == [i \in 1..Len(last.log) |-> last.log[i].op]

\* ------------------------------------------------------------------------
\* Properties
\* ------------------------------------------------------------------------

\* C1: once a call with digest d has succeeded, the record of d stays, no
\* VAA with digest d is executed a second time, and every later call with a
\* verified message of digest d fails with ErrVAAAlreadyExecuted.
C1_ExecutedAtMostOnce ==
    /\ \A i, j \in 1..Len(executed) :
          i # j => HexDigest(executed[i]) # HexDigest(executed[j])
    /\ \A i \in 1..Len(executed) : HexDigest(executed[i]) \in replayProtection
    /\ (Dispatched /\ LastDigest \in DigestsBefore)
          => last.err = "ErrVAAAlreadyExecuted"

\* A VAA that was executed is submitted again and rejected.
C1_ReplayRejected ==
    /\ Dispatched
    /\ LastDigest \in DigestsBefore
    /\ last.err = "ErrVAAAlreadyExecuted"
    /\ StoresUnchanged

\* The handler ran to its end: the event and then the replay record are its
\* last two writes.
Completed ==
    /\ last.err = "ok"
    /\ Len(last.log) >= 2
    /\ LogOps[Len(last.log)] = "SetReplayProtection"
    /\ LogOps[Len(last.log) - 1] = "EmitTypedEvent"

\* C2: a call that fails, at whatever stage, leaves every store (replay
\* records, rollback records, metadata, balances, supply, events) as it was
\* before the call; only a call that ran to its end changes anything.
C2_FailureLeavesNoTrace ==
    last.called =>
        /\ last.err # "ok" => StoresUnchanged
        /\ ~Completed => StoresUnchanged

\* A wrapped transfer was minted and its principal sent in the handler's
\* context, then the fee transfer failed, and nothing of it is in the stores.
C2_FeeSendFailedAfterPrincipal ==
    /\ last.called
    /\ last.err = "failed to send fees"
    /\ LogOps = <<"MintCoins", "SendCoins">>
    /\ StoresUnchanged

\* C3: the replay record is only ever the last write of a call that
\* succeeded; a failed call leaves the replay records as they were, so a
\* digest that has only failed so far has no record, and a call is rejected
\* with ErrVAAAlreadyExecuted only if its digest was executed before.
C3_RecordOnlyOnSuccess ==
    last.called =>
        /\ \A i \in 1..Len(last.log) :
              LogOps[i] = "SetReplayProtection"
                  => i = Len(last.log) /\ last.err = "ok"
        /\ last.err = "ok"
              => /\ last.log # <<>>
                 /\ LogOps[Len(last.log)] = "SetReplayProtection"
                 /\ replayProtection = last.pre.replay \cup {LastDigest}
        /\ last.err # "ok" => replayProtection = last.pre.replay
        /\ \A f \in rejected :
              f[1] \notin {HexDigest(executed[i]) : i \in 1..Len(executed)}
                  => f[1] \notin replayProtection
        /\ last.err = "ErrVAAAlreadyExecuted" => LastDigest \in DigestsBefore

\* A transfer that had failed with ErrAssetNotRegistered is submitted again
\* after the asset was registered, and succeeds.
C3_RetrySucceeded ==
    /\ last.called
    /\ last.err = "ok"
    /\ <<LastDigest, "ErrAssetNotRegistered">> \in rejected
    /\ "MintCoins" \in {LogOps[i] : i \in 1..Len(last.log)}

\* C4: a dispatched message whose emitter chain has no registration fails
\* with ErrUnregisteredChain, one whose emitter address differs from the
\* registered one fails with ErrUnregisteredEmitter; neither writes anything.
C4_EmitterAuthenticated ==
    Dispatched =>
        /\ LastVaa.EmitterChain \notin DOMAIN last.pre.regs
              => /\ last.err = "ErrUnregisteredChain"
                 /\ last.log = <<>>
                 /\ StoresUnchanged
        /\ (/\ LastVaa.EmitterChain \in DOMAIN last.pre.regs
            /\ last.pre.regs[LastVaa.EmitterChain] # LastVaa.EmitterAddress)
              => /\ last.err = "ErrUnregisteredEmitter"
                 /\ last.log = <<>>
                 /\ StoresUnchanged

\* A message from a registered chain but another emitter was rejected.
C4_RogueEmitterRejected ==
    /\ Dispatched
    /\ LastVaa.EmitterChain \in DOMAIN last.pre.regs
    /\ last.pre.regs[LastVaa.EmitterChain] # LastVaa.EmitterAddress
    /\ last.err = "ErrUnregisteredEmitter"

\* The transfer of the latest call, as the handler reads it.
LastTransfer == DecodeTransfer(LastBody)
LastDenom == ResolveDenom(LastTransfer.tokenChain, LastTransfer.tokenAddress, config.ChainId)
LastAmount == Untruncate(LastTransfer.unnormalizedAmount, last.pre.meta[LastDenom.identifier]).amount
LastFee == Untruncate(LastTransfer.unnormalizedFee, last.pre.meta[LastDenom.identifier]).amount
LastSender == last.msg.Creator.data

BalanceChange(account, denom) ==
    Get0(balances, <<account, denom>>) - Get0(last.pre.bal, <<account, denom>>)

\* What a transfer of amount A with fee F gives to (or takes from) an account.
TransferShare(account, A, F, wrapped) ==
    (IF account = LastTransfer.to THEN A - F ELSE 0)
    + (IF account = LastSender THEN F ELSE 0)
    - (IF account = ModuleAccount /\ ~wrapped THEN A ELSE 0)

\* C5: a successful transfer of normalized amount A and fee F mints A into
\* the module account iff the denom is wrapped, then sends A - F to the
\* recipient, then sends F to the tx sender iff F > 0, and does nothing else
\* to the bank: the recipient and the tx sender receive A in total, a wrapped
\* transfer leaves the module balance as it was and raises the supply by A,
\* a native one mints nothing and lowers the module balance by A.
C5_TransferAccounting ==
    (TransferCall /\ last.err = "ok") =>
        LET A == LastAmount
            F == LastFee
            id == LastDenom.identifier
            wrapped == LastDenom.wrapped
            mint == IF wrapped
                    THEN <<[op |-> "MintCoins", denom |-> id, amount |-> A]>>
                    ELSE <<>>
            principal == <<[op |-> "SendCoins", from |-> ModuleAccount,
                            to |-> LastTransfer.to, denom |-> id, amount |-> A - F]>>
            feePaid == IF F > 0
                       THEN <<[op |-> "SendCoins", from |-> ModuleAccount,
                               to |-> LastSender, denom |-> id, amount |-> F]>>
                       ELSE <<>>
            accounts == {LastTransfer.to, LastSender, ModuleAccount}
        IN /\ F <= A
           /\ last.log = mint \o principal \o feePaid
                         \o <<[op |-> "EmitTypedEvent", type |-> "EventTransferReceived"],
                              [op |-> "SetReplayProtection"]>>
           /\ \A acc \in accounts :
                 BalanceChange(acc, id) = TransferShare(acc, A, F, wrapped)
           /\ \A k \in DOMAIN balances \cup DOMAIN last.pre.bal :
                 (k[2] # id \/ k[1] \notin accounts)
                     => Get0(balances, k) = Get0(last.pre.bal, k)
           /\ Get0(supply, id) - Get0(last.pre.supply, id) = (IF wrapped THEN A ELSE 0)
           /\ \A dn \in (DOMAIN supply \cup DOMAIN last.pre.supply) \ {id} :
                 Get0(supply, dn) = Get0(last.pre.supply, dn)
           /\ denomMetaData = last.pre.meta
           /\ coinMetaRollback = last.pre.rollback

\* A wrapped transfer with a fee below its amount succeeded.
C5_WrappedTransferWithFee ==
    /\ TransferCall
    /\ last.err = "ok"
    /\ LastDenom.wrapped
    /\ 0 < LastFee
    /\ LastFee < LastAmount
    /\ BalanceChange(LastTransfer.to, LastDenom.identifier) = LastAmount - LastFee
    /\ BalanceChange(LastSender, LastDenom.identifier) = LastFee

\* The latest call is a transfer to this chain of a denom with metadata that
\* names its display unit: it reaches the comparison of fee and amount.
ReachesFeeCheck ==
    /\ TransferCall
    /\ LastTransfer.toChain = config.ChainId
    /\ LastDenom.identifier \in DOMAIN last.pre.meta
    /\ DisplayExponent(last.pre.meta[LastDenom.identifier]) >= 0

\* C6: the comparison of the normalized fee and amount comes before any mint
\* or send: a transfer fails with ErrFeeTooHigh exactly when amount < fee
\* (amount = fee passes), and then nothing was written, not even in the
\* handler's context.
C6_FeeInvariant ==
    ReachesFeeCheck =>
        /\ (last.err = "ErrFeeTooHigh") <=> (LastAmount < LastFee)
        /\ last.err = "ErrFeeTooHigh" => last.log = <<>> /\ StoresUnchanged
        /\ last.err = "ok" => LastFee <= LastAmount

\* A transfer whose fee exceeds its amount was rejected.
C6_FeeTooHighRejected ==
    /\ ReachesFeeCheck
    /\ LastAmount < LastFee
    /\ last.err = "ErrFeeTooHigh"
    /\ last.log = <<>>

\* C7: a transfer whose toChain is not this chain fails with
\* ErrInvalidTargetChain whatever its amount, fee, token and recipient are,
\* and nothing is minted or sent.
C7_TargetChain ==
    (TransferCall /\ LastTransfer.toChain # config.ChainId) =>
        /\ last.err = "ErrInvalidTargetChain"
        /\ last.log = <<>>
        /\ StoresUnchanged

\* A transfer of a registered wrapped token to another chain was rejected,
\* though its token, amount and fee would have passed.
C7_ForeignTargetRejected ==
    /\ TransferCall
    /\ LastTransfer.toChain # config.ChainId
    /\ LastDenom.identifier \in DOMAIN last.pre.meta
    /\ LastFee <= LastAmount
    /\ last.err = "ErrInvalidTargetChain"

\* Registrations: the asset of an AssetMeta VAA and the registrations of the
\* same wrapped identifier executed before the latest call.
IsAssetMeta(v) ==
    Len(v.Payload) = AssetMetaBodyLen + 1 /\ v.Payload[1] = PayloadIDAssetMeta

IdentifierOf(v) ==
    GetWrappedCoinIdentifier(DecodeAssetMeta(Tail(v.Payload)).tokenChain,
                             DecodeAssetMeta(Tail(v.Payload)).tokenAddress)

EarlierRegistrations ==
    {ExecutedBefore[i] : i \in {j \in 1..Len(ExecutedBefore) :
        /\ IsAssetMeta(ExecutedBefore[j])
        /\ IdentifierOf(ExecutedBefore[j]) = IdentifierOf(LastVaa)}}

LastAssetMeta == DecodeAssetMeta(LastBody)

\* C8: after a successful registration of an identifier with sequence s1,
\* another registration message of the same identifier with sequence
\* s2 <= s1 fails with ErrAssetMetaRollback and changes neither the metadata
\* nor the rollback record.
C8_RollbackProtection ==
    (AssetMetaCall /\ \E first \in EarlierRegistrations :
                          LastVaa.Sequence <= first.Sequence) =>
        /\ last.err = "ErrAssetMetaRollback"
        /\ last.log = <<>>
        /\ StoresUnchanged

\* A second registration message with the sequence of the first was rejected.
C8_EqualSequenceRejected ==
    /\ AssetMetaCall
    /\ \E first \in EarlierRegistrations : LastVaa.Sequence = first.Sequence
    /\ last.err = "ErrAssetMetaRollback"

\* C9: lastUpdateSequence of an identifier never decreases: a rollback
\* record changes only by a successful registration of its identifier, which
\* sets it to the message's sequence, strictly above the value it replaces.
C9_SequenceNeverDecreases ==
    last.called =>
        /\ \A id \in DOMAIN last.pre.rollback :
              /\ id \in DOMAIN coinMetaRollback
              /\ coinMetaRollback[id] >= last.pre.rollback[id]
        /\ \A id \in DOMAIN coinMetaRollback :
              (id \notin DOMAIN last.pre.rollback
               \/ coinMetaRollback[id] # last.pre.rollback[id])
                  => /\ AssetMetaCall
                     /\ last.err = "ok"
                     /\ id = IdentifierOf(LastVaa)
        /\ (AssetMetaCall /\ last.err = "ok")
              => /\ IdentifierOf(LastVaa) \in DOMAIN coinMetaRollback
                 /\ coinMetaRollback[IdentifierOf(LastVaa)] = LastVaa.Sequence
                 /\ IdentifierOf(LastVaa) \in DOMAIN last.pre.rollback
                       => LastVaa.Sequence > last.pre.rollback[IdentifierOf(LastVaa)]

\* A second registration raised the stored sequence.
C9_SequenceRaised ==
    /\ AssetMetaCall
    /\ last.err = "ok"
    /\ IdentifierOf(LastVaa) \in DOMAIN last.pre.rollback
    /\ coinMetaRollback[IdentifierOf(LastVaa)] > last.pre.rollback[IdentifierOf(LastVaa)]

\* The decimals of the registrations executed before, the highest of their
\* sequences, and the metadata the bank holds for the asset of the latest call.
EarlierDecimals ==
    {DecodeAssetMeta(Tail(v.Payload)).decimals : v \in EarlierRegistrations}

NewerThanEarlier == \A v \in EarlierRegistrations : LastVaa.Sequence > v.Sequence

LastBaseDenom == BasePrefix \o IdentifierOf(LastVaa)

\* The outcome of a registration that passed every check of the registrar:
\* it succeeds unless the event cannot be emitted.
PassedTheChecks == last.err \in {"ok", "EmitTypedEvent failed"}

NameAndSymbolReplaced ==
    /\ LastBaseDenom \in DOMAIN denomMetaData
    /\ denomMetaData[LastBaseDenom].Name = LastAssetMeta.name
    /\ denomMetaData[LastBaseDenom].Symbol = LastAssetMeta.symbol

\* C10 as stated: a second registration of the same (tokenChain,
\* tokenAddress) with different decimals fails with ErrChangeDecimals; one
\* with identical decimals and a higher sequence succeeds and replaces the
\* stored name and symbol.
C10_AsStated ==
    (AssetMetaCall /\ EarlierRegistrations # {}) =>
        /\ LastAssetMeta.decimals \notin EarlierDecimals
              => last.err = "ErrChangeDecimals"
        /\ (LastAssetMeta.decimals \in EarlierDecimals /\ NewerThanEarlier)
              => /\ PassedTheChecks
                 /\ last.err = "ok" => NameAndSymbolReplaced

\* C10 (amended): a second registration with a higher sequence fails with
\* ErrChangeDecimals if its decimals differ and writes nothing; with
\* identical decimals it succeeds and replaces the stored name and symbol.
\* With a sequence that is not higher it fails with ErrAssetMetaRollback,
\* whatever its decimals.
C10_DecimalsImmutable ==
    (AssetMetaCall /\ EarlierRegistrations # {}) =>
        /\ (LastAssetMeta.decimals \notin EarlierDecimals /\ NewerThanEarlier)
              => /\ last.err = "ErrChangeDecimals"
                 /\ last.log = <<>>
                 /\ StoresUnchanged
        /\ (LastAssetMeta.decimals \in EarlierDecimals /\ NewerThanEarlier)
              => /\ PassedTheChecks
                 /\ last.err = "ok" => NameAndSymbolReplaced
        /\ ~NewerThanEarlier => last.err = "ErrAssetMetaRollback"

\* A second registration with the same decimals and a higher sequence
\* succeeded and the bank now holds its name and symbol instead of the
\* earlier ones.
C10_NameAndSymbolUpdated ==
    /\ AssetMetaCall
    /\ EarlierRegistrations # {}
    /\ LastAssetMeta.decimals \in EarlierDecimals
    /\ NewerThanEarlier
    /\ last.err = "ok"
    /\ NameAndSymbolReplaced
    /\ last.pre.meta[LastBaseDenom].Name # denomMetaData[LastBaseDenom].Name
    /\ last.pre.meta[LastBaseDenom].Symbol # denomMetaData[LastBaseDenom].Symbol

\* The registrations executed so far, the latest call included.
ExecutedRegistrations ==
    {executed[i] : i \in {j \in 1..Len(executed) : IsAssetMeta(executed[j])}}

\* The exponent of the unit of a metadata record named denom; the set of the
\* exponents of the units so named.
ExponentsOf(meta, denom) ==
    {meta.DenomUnits[i].Exponent :
        i \in {j \in 1..Len(meta.DenomUnits) : meta.DenomUnits[j].Denom = denom}}

\* C11: once a registration has written the display unit (identifier, e) of
\* a wrapped asset, every later state holds metadata for the asset whose
\* display unit is identifier with exponent e and whose base unit has
\* exponent 0: the exponent is that of the first registration executed, and
\* no call changes the exponents of a metadata record that exists.
C11_ExponentImmutable ==
    /\ \A v \in ExecutedRegistrations :
          LET id == IdentifierOf(v)
              base == BasePrefix \o id
          IN /\ base \in DOMAIN denomMetaData
             /\ denomMetaData[base].Display = id
             /\ denomMetaData[base].Base = base
             /\ ExponentsOf(denomMetaData[base], id)
                   = {DecodeAssetMeta(Tail(v.Payload)).decimals}
             /\ ExponentsOf(denomMetaData[base], base) = {0}
    /\ last.called =>
          \A base \in DOMAIN last.pre.meta :
              /\ base \in DOMAIN denomMetaData
              /\ DisplayExponent(denomMetaData[base]) = DisplayExponent(last.pre.meta[base])
              /\ ExponentsOf(denomMetaData[base], base) = {0}

\* A registered asset was registered again by a newer message with another
\* decimal count; the call was refused and the exponent is the one first set.
C11_ExponentKept ==
    /\ AssetMetaCall
    /\ EarlierRegistrations # {}
    /\ NewerThanEarlier
    /\ LastAssetMeta.decimals \notin EarlierDecimals
    /\ last.err = "ErrChangeDecimals"
    /\ {DisplayExponent(denomMetaData[LastBaseDenom])} = EarlierDecimals

\* C12: a registration whose tokenChain is this chain fails with
\* ErrNativeAssetRegistration whatever its tokenAddress, decimals, symbol,
\* name and sequence are, and so does one of the system's own token; neither
\* writes metadata or a rollback record, not even in the handler's context.
C12_NativeAssetRegistration ==
    (AssetMetaCall /\ (\/ LastAssetMeta.tokenChain = config.ChainId
                       \/ IsWORMToken(LastAssetMeta.tokenChain, LastAssetMeta.tokenAddress))) =>
        /\ last.err = "ErrNativeAssetRegistration"
        /\ last.log = <<>>
        /\ denomMetaData = last.pre.meta
        /\ coinMetaRollback = last.pre.rollback
        /\ StoresUnchanged

\* A registration for this chain was refused though its token address is one
\* that is registered for another chain, with a sequence above the stored one.
C12_LocalChainRefused ==
    /\ AssetMetaCall
    /\ LastAssetMeta.tokenChain = config.ChainId
    /\ \E v \in ExecutedRegistrations :
          /\ DecodeAssetMeta(Tail(v.Payload)).tokenAddress = LastAssetMeta.tokenAddress
          /\ v.Sequence < LastVaa.Sequence
    /\ last.err = "ErrNativeAssetRegistration"

\* C13: a wire amount normalized to a denom's native precision and converted
\* back to wire precision is never greater than the original: with at least
\* 8 native decimals it is the original, with fewer it is the original less
\* the digits below the native precision (floor).
C13_RoundTripNeverGains ==
    probe.op = "denormalized" =>
        /\ probe.back <= probe.wire
        /\ probe.decimals >= WireDecimals => probe.back = probe.wire
        /\ probe.decimals < WireDecimals =>
              /\ probe.back = probe.wire - (probe.wire % Pow10(WireDecimals - probe.decimals))
              /\ probe.wire - probe.back < Pow10(WireDecimals - probe.decimals)

\* An amount with digits below the native precision went down and came back
\* smaller, but not zero.
C13_RoundTripLost ==
    /\ probe.op = "denormalized"
    /\ probe.decimals < WireDecimals
    /\ 0 < probe.back
    /\ probe.back < probe.wire

\* The errors each handler can return, and the type of the event it emits.
TransferOutcomes ==
    {"ok", "ErrInvalidTargetChain", "ErrNoDenomMetadata", "ErrAssetNotRegistered",
     "ErrInvalidAmount", "ErrInvalidFee", "failed to untruncate amount",
     "failed to untruncate fee", "ErrFeeTooHigh", "failed to mint coins",
     "SendCoins failed", "invalid bech32", "failed to send fees",
     "EmitTypedEvent failed"}

AssetMetaOutcomes ==
    {"ok", "ErrNativeAssetRegistration", "ErrUnregisteredEmitter",
     "ErrAssetMetaRollback", "mis-matched display denom", "ErrChangeDecimals",
     "EmitTypedEvent failed"}

EventTypes == {last.log[i].type : i \in {j \in 1..Len(last.log) : LogOps[j] = "EmitTypedEvent"}}

\* The first precondition of the dispatcher that the latest message violates
\* in the stores before the call, or the handler its tag and length select.
FirstViolated ==
    IF LastDigest \in last.pre.replay THEN "ErrVAAAlreadyExecuted"
    ELSE IF LastVaa.EmitterChain \notin DOMAIN last.pre.regs THEN "ErrUnregisteredChain"
    ELSE IF last.pre.regs[LastVaa.EmitterChain] # LastVaa.EmitterAddress
    THEN "ErrUnregisteredEmitter"
    ELSE IF Len(LastVaa.Payload) = 0 THEN "ErrVAAPayloadInvalid"
    ELSE IF LastVaa.Payload[1] \notin {PayloadIDTransfer, PayloadIDAssetMeta}
    THEN "ErrUnknownPayloadType"
    ELSE IF LastVaa.Payload[1] = PayloadIDTransfer
    THEN (IF Len(LastBody) # TransferBodyLen THEN "ErrVAAPayloadInvalid" ELSE "Transfer")
    ELSE (IF Len(LastBody) # AssetMetaBodyLen THEN "ErrVAAPayloadInvalid" ELSE "AssetMeta")

\* C14: the dispatcher returns the error of the first precondition violated
\* in the order replay record, emitter chain, emitter address, empty payload,
\* tag; tag 1 is handled by the transfer handler and tag 2 by the registrar,
\* each of which checks the length of the body before anything else; a call
\* refused by the dispatcher or for its length has written nothing.
C14_DispatchOrder ==
    Dispatched =>
        /\ FirstViolated \notin {"Transfer", "AssetMeta"}
              => /\ last.err = FirstViolated
                 /\ last.log = <<>>
        /\ FirstViolated = "Transfer"
              => /\ last.err \in TransferOutcomes
                 /\ EventTypes \subseteq {"EventTransferReceived"}
                 /\ last.err = "ok" => EventTypes # {}
        /\ FirstViolated = "AssetMeta"
              => /\ last.err \in AssetMetaOutcomes
                 /\ EventTypes \subseteq {"EventAssetRegistrationUpdate"}
                 /\ last.err = "ok" => EventTypes # {}

\* A message with an empty payload from a chain that is not registered was
\* refused for its chain.
C14_ChainBeforePayload ==
    /\ Dispatched
    /\ LastVaa.EmitterChain \notin DOMAIN last.pre.regs
    /\ LastVaa.Payload = <<>>
    /\ last.err = "ErrUnregisteredChain"

\* The registrations of the token of the latest transfer executed before it.
RegisteredBefore ==
    {ExecutedBefore[i] : i \in {j \in 1..Len(ExecutedBefore) :
        /\ IsAssetMeta(ExecutedBefore[j])
        /\ DecodeAssetMeta(Tail(ExecutedBefore[j].Payload)).tokenChain
              = LastTransfer.tokenChain
        /\ DecodeAssetMeta(Tail(ExecutedBefore[j].Payload)).tokenAddress
              = LastTransfer.tokenAddress}}

\* The token of the latest transfer is foreign and not the system's own.
ForeignToken ==
    /\ LastTransfer.tokenChain # config.ChainId
    /\ ~IsWORMToken(LastTransfer.tokenChain, LastTransfer.tokenAddress)

\* C15: a transfer to this chain whose denom has no metadata fails with
\* ErrAssetNotRegistered if the denom is wrapped and with ErrNoDenomMetadata
\* if not, with nothing minted or sent; a transfer of a foreign token
\* succeeds only after a registration of the same (tokenChain, tokenAddress)
\* was executed, and after one it is never refused for missing metadata: the
\* transfer looks up the key under which the registrar stored the metadata.
C15_RegisteredBeforeTransfer ==
    TransferCall =>
        /\ (/\ LastTransfer.toChain = config.ChainId
            /\ LastDenom.identifier \notin DOMAIN last.pre.meta)
              => /\ last.err = (IF LastDenom.wrapped THEN "ErrAssetNotRegistered"
                                ELSE "ErrNoDenomMetadata")
                 /\ last.log = <<>>
                 /\ StoresUnchanged
        /\ (last.err = "ok" /\ ForeignToken) => RegisteredBefore # {}
        /\ (/\ LastTransfer.toChain = config.ChainId
            /\ ForeignToken
            /\ RegisteredBefore # {})
              => /\ last.err \notin {"ErrAssetNotRegistered", "ErrNoDenomMetadata"}
                 /\ LastDenom.identifier \in DOMAIN last.pre.meta

\* A transfer of a foreign token succeeded after the token was registered.
C15_TransferAfterRegistration ==
    /\ TransferCall
    /\ ForeignToken
    /\ RegisteredBefore # {}
    /\ last.err = "ok"
    /\ Get0(supply, LastDenom.identifier) > 0

\* The denoms that have metadata at genesis.
GenesisDenoms == {UwormDenom, UtestDenom}

\* The asset of registration v comes from a registered chain other than this
\* one and is not the system's own token.
OriginTrusted(v) ==
    LET a == DecodeAssetMeta(Tail(v.Payload))
    IN /\ a.tokenChain \in DOMAIN chainRegistration
       /\ a.tokenChain # config.ChainId
       /\ ~IsWORMToken(a.tokenChain, a.tokenAddress)

\* C16: a registration that is not refused as native and whose tokenChain
\* has no ChainRegistration fails with ErrUnregisteredEmitter and writes
\* nothing, so a registration succeeds only for a registered tokenChain; in
\* every state each rollback record and each metadata entry that was not
\* there at genesis is that of an executed registration whose tokenChain is
\* registered, is not this chain, and whose token is not the system's own.
C16_RegisteredTokenChain ==
    /\ (/\ AssetMetaCall
        /\ LastAssetMeta.tokenChain # config.ChainId
        /\ ~IsWORMToken(LastAssetMeta.tokenChain, LastAssetMeta.tokenAddress)
        /\ LastAssetMeta.tokenChain \notin DOMAIN last.pre.regs)
          => /\ last.err = "ErrUnregisteredEmitter"
             /\ last.log = <<>>
             /\ StoresUnchanged
    /\ (AssetMetaCall /\ last.err = "ok")
          => LastAssetMeta.tokenChain \in DOMAIN last.pre.regs
    /\ \A id \in DOMAIN coinMetaRollback :
          \E v \in ExecutedRegistrations : id = IdentifierOf(v) /\ OriginTrusted(v)
    /\ \A base \in DOMAIN denomMetaData \ GenesisDenoms :
          \E v \in ExecutedRegistrations :
              base = BasePrefix \o IdentifierOf(v) /\ OriginTrusted(v)

\* A registration sent by a registered emitter for a token of a chain that
\* is not registered was refused.
C16_UnknownTokenChainRefused ==
    /\ AssetMetaCall
    /\ LastAssetMeta.tokenChain # config.ChainId
    /\ LastAssetMeta.tokenChain \notin DOMAIN last.pre.regs
    /\ last.err = "ErrUnregisteredEmitter"
    /\ Len(executed) > 0

\* The pair resolved by the latest application of the resolver is the
\* system's own token.
ProbedWORMToken == IsWORMToken(probe.tokenChain, probe.tokenAddress)

\* C17: the resolver gives, in this order of cases: for the system's own
\* token the denom "uworm" with wrapped = TRUE, also when tokenChain is the
\* local chain id; otherwise for tokenChain other than the local chain id
\* the prefixed wrapped identifier of the pair with wrapped = TRUE; otherwise
\* wrapped = FALSE.  So wrapped holds exactly when the pair is the system's
\* token or tokenChain is not the local chain id.
C17_ResolverCases ==
    probe.op = "resolved" =>
        /\ ProbedWORMToken
              => probe.denom = [identifier |-> UwormDenom, wrapped |-> TRUE]
        /\ (~ProbedWORMToken /\ probe.tokenChain # probe.chainId)
              => /\ probe.denom.wrapped
                 /\ probe.denom.identifier =
                       BasePrefix \o GetWrappedCoinIdentifier(probe.tokenChain,
                                                              probe.tokenAddress)
        /\ (~ProbedWORMToken /\ probe.tokenChain = probe.chainId)
              => ~probe.denom.wrapped
        /\ probe.denom.wrapped <=> (ProbedWORMToken \/ probe.tokenChain # probe.chainId)

\* The system's own token was resolved on a chain whose id is the token's
\* chain: it is "uworm", to be minted.
C17_WORMTokenOnItsChain ==
    /\ probe.op = "resolved"
    /\ ProbedWORMToken
    /\ probe.tokenChain = probe.chainId
    /\ probe.denom.identifier = UwormDenom
    /\ probe.denom.wrapped

\* The latest application of the resolver was to a token of the local chain
\* that is not the system's own.
ProbedNativeCoin ==
    /\ probe.op = "resolved"
    /\ probe.tokenChain = probe.chainId
    /\ ~ProbedWORMToken

\* C18 as stated: for a token native to this chain the identifier is the
\* tokenAddress with its trailing NUL bytes stripped, and wrapped = FALSE.
C18_AsStated ==
    ProbedNativeCoin =>
        /\ probe.denom.identifier = TrimRight(probe.tokenAddress)
        /\ ~probe.denom.wrapped

\* C18 (amended): for a token native to this chain the identifier is the
\* tokenAddress with its leading NUL bytes stripped, that is, the bytes from
\* the first one that is not NUL to the last of the 32, trailing NULs
\* included (nothing if all are NUL), and wrapped = FALSE.
C18_LeadingNULsStripped ==
    ProbedNativeCoin =>
        LET id == probe.denom.identifier
            k == Len(probe.tokenAddress) - Len(id)
        IN /\ ~probe.denom.wrapped
           /\ k >= 0
           /\ id = SubSeq(probe.tokenAddress, k + 1, Len(probe.tokenAddress))
           /\ \A i \in 1..k : probe.tokenAddress[i] = NUL
           /\ id # <<>> => id[1] # NUL

\* A denom name with NULs on both sides lost those on the left and kept
\* those on the right.
C18_TrailingNULsKept ==
    /\ ProbedNativeCoin
    /\ probe.tokenAddress[1] = NUL
    /\ probe.denom.identifier # <<>>
    /\ Len(probe.denom.identifier) < Len(probe.tokenAddress)
    /\ probe.denom.identifier[Len(probe.denom.identifier)] = NUL

\* The latest call carried a payload with the given tag, whatever became of it.
Tagged(payloadID) ==
    /\ last.called
    /\ LastVaa.Payload # <<>>
    /\ LastVaa.Payload[1] = payloadID

\* C19: an execution of a transfer, successful or not, writes neither
\* metadata nor a rollback record, not even in its context; an execution of
\* a registration, successful or not, neither mints nor sends and leaves
\* every balance and the supply as they were; and no execution creates,
\* changes or removes a chain registration.
C19_Frame ==
    last.called =>
        /\ Tagged(PayloadIDTransfer)
              => /\ denomMetaData = last.pre.meta
                 /\ coinMetaRollback = last.pre.rollback
                 /\ \A i \in 1..Len(last.log) :
                       LogOps[i] \notin {"SetDenomMetaData", "SetCoinMetaRollbackProtection"}
        /\ Tagged(PayloadIDAssetMeta)
              => /\ balances = last.pre.bal
                 /\ supply = last.pre.supply
                 /\ \A i \in 1..Len(last.log) : LogOps[i] \notin {"MintCoins", "SendCoins"}
        /\ chainRegistration = last.pre.regs
        /\ chainRegistration = (SolanaId :> EmitterSolana) @@ (EthereumId :> EmitterEthereum)

\* A transfer of a registered wrapped token was executed: the bank changed,
\* the metadata and the rollback record of the token did not.
C19_TransferLeavesMetadata ==
    /\ TransferCall
    /\ last.err = "ok"
    /\ ForeignToken
    /\ supply # last.pre.supply
    /\ LastDenom.identifier \in DOMAIN denomMetaData
    /\ denomMetaData = last.pre.meta
    /\ coinMetaRollback = last.pre.rollback
    /\ coinMetaRollback # <<>>

\* The latest call is a registration that passes the checks of the origin of
\* its token: not this chain, not the system's token, a registered chain.
RegistrationOfTrustedOrigin ==
    /\ AssetMetaCall
    /\ LastAssetMeta.tokenChain # config.ChainId
    /\ ~IsWORMToken(LastAssetMeta.tokenChain, LastAssetMeta.tokenAddress)
    /\ LastAssetMeta.tokenChain \in DOMAIN last.pre.regs

\* The stored sequence of its identifier is not below that of the message.
NotNewerThanStored ==
    /\ IdentifierOf(LastVaa) \in DOMAIN last.pre.rollback
    /\ last.pre.rollback[IdentifierOf(LastVaa)] >= LastVaa.Sequence

\* The registrations of the same identifier executed before that were
\* emitted by another chain than the latest message.
EarlierFromOtherEmitter ==
    {v \in EarlierRegistrations : v.EmitterChain # LastVaa.EmitterChain}

\* C20: a registration emitted by the registered emitter of one chain for a
\* token of another registered chain is accepted like one emitted by the
\* token's chain: unless the stored sequence or the stored decimals refuse
\* it, it writes the metadata and the rollback record of that token; and the
\* stored sequence refuses a message whose sequence is not above it
\* whichever emitter produced the stored sequence and the message.
C20_EmitterNeedNotBeTokenChain ==
    RegistrationOfTrustedOrigin =>
        /\ NotNewerThanStored => last.err = "ErrAssetMetaRollback"
        /\ (/\ ~NotNewerThanStored
            /\ LastBaseDenom \in DOMAIN last.pre.meta
                  => DisplayExponent(last.pre.meta[LastBaseDenom]) = LastAssetMeta.decimals)
              => /\ PassedTheChecks
                 /\ last.err = "ok"
                       => /\ NameAndSymbolReplaced
                          /\ denomMetaData[LastBaseDenom].Display = IdentifierOf(LastVaa)
                          /\ DisplayExponent(denomMetaData[LastBaseDenom])
                                = LastAssetMeta.decimals
                          /\ coinMetaRollback[IdentifierOf(LastVaa)] = LastVaa.Sequence

\* The emitter of one chain registered a token of another chain.
C20_RegisteredByOtherChain ==
    /\ RegistrationOfTrustedOrigin
    /\ LastAssetMeta.tokenChain # LastVaa.EmitterChain
    /\ last.err = "ok"
    /\ LastBaseDenom \in DOMAIN denomMetaData
    /\ LastBaseDenom \notin DOMAIN last.pre.meta
    /\ coinMetaRollback[IdentifierOf(LastVaa)] = LastVaa.Sequence

====
